---- MODULE Spec2Model ----
(***************************************************************************)
(* LiveLab browser clients of the teleoperation backend.                   *)
(*                                                                         *)
(* Two clients are modelled: the React application (App routes, the        *)
(* Landing page with its two dialogs, the Teleoperation page) and the      *)
(* static page index.html.  One behaviour follows one of the two clients   *)
(* (variable client).  Every handler runs to its next await in one step;   *)
(* the continuation after an await is a separate step taken when the       *)
(* awaited promise settles.                                                *)
(***************************************************************************)
EXTENDS Naturals, Sequences, FiniteSets

VARIABLES
    client,                  \* "react" or "static": which page this run is
    location,                \* path shown by the BrowserRouter
    robotModel,              \* Landing useState, part_001:25
    showPermissionModal,     \* part_001:26
    showTeleoperationModal,  \* part_001:27
    leaderPort,              \* part_001:28 / index.html input #leaderPort
    followerPort,            \* part_001:29 / index.html input #followerPort
    leaderConfig,            \* part_001:32 / index.html select #leaderConfig value
    followerConfig,          \* part_001:33 / index.html select #followerConfig
    leaderConfigs,           \* part_001:34 / option values of #leaderConfig
    followerConfigs,         \* part_001:35 / option values of #followerConfig
    isLoadingConfigs,        \* part_001:36
    responseText,            \* index.html div #response
    loads,                   \* pending GET /get-configs calls
    starts,                  \* pending POST /move-arm calls
    media,                   \* pending getUserMedia calls
    tracks,                  \* every media track acquired so far
    sessionActive,           \* a begin-session call was accepted, none torn down
    last                     \* what the most recent step did

vars == <<client, location, robotModel, showPermissionModal,
          showTeleoperationModal, leaderPort, followerPort, leaderConfig,
          followerConfig, leaderConfigs, followerConfigs, isLoadingConfigs,
          responseText, loads, starts, media, tracks, sessionActive, last>>

landingVars == <<robotModel, showPermissionModal, showTeleoperationModal,
                 leaderPort, followerPort, leaderConfig, followerConfig,
                 leaderConfigs, followerConfigs, isLoadingConfigs>>

formVars == <<leaderPort, followerPort, leaderConfig, followerConfig>>

(***************************************************************************)
(* Bounds.                                                                 *)
(***************************************************************************)
MaxPending == 2     \* promises pending at once (fetch and getUserMedia)

(***************************************************************************)
(* Values.                                                                 *)
(***************************************************************************)
Port421 == "/dev/tty.usbmodem5A460816421"
Port621 == "/dev/tty.usbmodem5A460816621"
PortValues == {Port421, Port621}
\* The handlers only test whether a model is selected: one of the two radio
\* values stands for both.
RobotModels == {"SO100"}
ConfigLists == {<<>>, <<"a", "b">>}
Elems(s) == {s[i] : i \in DOMAIN s}

\* App's route table.
RouteElement(path) ==
    CASE path = "/" -> "Landing"
      [] path = "/control" -> "Index"
      [] path = "/teleoperation" -> "TeleoperationPage"
      [] OTHER -> "NotFound"

Locations == {"/", "/control", "/teleoperation", "/unknown"}
StaticLocation == "/static/index.html"

\* What a step reports in last: the handler that ran, the toasts it raised,
\* the POST /move-arm bodies it transmitted, the paths it navigated to, and
\* whether the dialog had been closed while the call it resumed was pending.
Did(h, ts, ps, nav, c) ==
    [handler |-> h, toasts |-> ts, posts |-> ps, navigate |-> nav,
     cancelled |-> c]
Quiet(h) == Did(h, <<>>, <<>>, <<>>, FALSE)

LandingMounted == client = "react" /\ RouteElement(location) = "Landing"

\* The page behind an open Dialog is inert: the radio group and the two
\* entry buttons are reachable only while no dialog is open.
PageActive ==
    LandingMounted /\ ~showPermissionModal /\ ~showTeleoperationModal

\* A fresh Landing instance: the useState initial values.
LandingInit ==
    /\ robotModel = ""
    /\ showPermissionModal = FALSE
    /\ showTeleoperationModal = FALSE
    /\ leaderPort = Port421
    /\ followerPort = Port621
    /\ leaderConfig = ""
    /\ followerConfig = ""
    /\ leaderConfigs = <<>>
    /\ followerConfigs = <<>>
    /\ isLoadingConfigs = FALSE

\* The static page as parsed: value attributes of the inputs and the single
\* "Loading configs..." option of each select; window.onload has started its
\* fetch of /get-configs.
StaticInit ==
    /\ robotModel = ""
    /\ showPermissionModal = FALSE
    /\ showTeleoperationModal = FALSE
    /\ leaderPort = Port621
    /\ followerPort = Port421
    /\ leaderConfig = ""
    /\ followerConfig = ""
    /\ leaderConfigs = <<"">>
    /\ followerConfigs = <<"">>
    /\ isLoadingConfigs = FALSE

Init ==
    /\ client \in {"react", "static"}
    /\ IF client = "react"
         THEN location \in Locations /\ LandingInit /\ loads = <<>>
         ELSE location = StaticLocation /\ StaticInit
              /\ loads = <<[mounted |-> TRUE]>>
    /\ responseText = ""
    /\ starts = <<>>
    /\ media = 0
    /\ tracks = {}
    /\ sessionActive = FALSE
    /\ last = Quiet("load")

(***************************************************************************)
(* Helpers.                                                                *)
(***************************************************************************)
\* Number of pending promises.
Pending == Len(loads) + Len(starts) + media

\* The pending calls to settle next; calls in the same situation are
\* interchangeable, so the first of each kind stands for all of them.
Settling(calls) ==
    {i \in DOMAIN calls : \A j \in 1..(i - 1) : calls[j] # calls[i]}

RemoveAt(s, i) == SubSeq(s, 1, i - 1) \o SubSeq(s, i + 1, Len(s))

\* Calls started by a Landing instance that has since unmounted: their
\* setState calls no longer reach any component.
Detach(calls) == [i \in DOMAIN calls |-> [calls[i] EXCEPT !.mounted = FALSE]]

\* navigate(path), given the pending calls left after this step.  Leaving
\* "/" unmounts Landing; the next mount starts from the useState initial
\* values.
Navigate(path, ls, ss) ==
    /\ location' = path
    /\ IF RouteElement(location) = "Landing" /\ RouteElement(path) # "Landing"
         THEN /\ robotModel' = ""
              /\ showPermissionModal' = FALSE
              /\ showTeleoperationModal' = FALSE
              /\ leaderPort' = Port421
              /\ followerPort' = Port621
              /\ leaderConfig' = ""
              /\ followerConfig' = ""
              /\ leaderConfigs' = <<>>
              /\ followerConfigs' = <<>>
              /\ isLoadingConfigs' = FALSE
              /\ loads' = Detach(ls)
              /\ starts' = Detach(ss)
         ELSE /\ UNCHANGED landingVars
              /\ loads' = ls
              /\ starts' = ss

NoData == [none |-> TRUE]

\* A response to POST /move-arm as its handler reads it: fetch fulfilled or
\* rejected, response.ok, and the body parsed by response.json() or not.
Responses(datas) ==
    {[fetch |-> "rejected", ok |-> FALSE, json |-> FALSE, data |-> NoData]}
    \cup {[fetch |-> "fulfilled", ok |-> o, json |-> FALSE, data |-> NoData] :
            o \in BOOLEAN}
    \cup {[fetch |-> "fulfilled", ok |-> o, json |-> TRUE, data |-> d] :
            o \in BOOLEAN, d \in datas}

\* A response to GET /get-configs as its handlers read it: they never look
\* at the status, so an error document is a body like any other.
BodyResponses(datas) ==
    {[fetch |-> "rejected", json |-> FALSE, data |-> NoData],
     [fetch |-> "fulfilled", json |-> FALSE, data |-> NoData]}
    \cup {[fetch |-> "fulfilled", json |-> TRUE, data |-> d] : d \in datas}

\* The await of fetch and of response.json() completes normally.
Parsed(resp) == resp.fetch = "fulfilled" /\ resp.json

(***************************************************************************)
(* Landing: robot model and the two entry buttons.                         *)
(***************************************************************************)
setRobotModel(m) ==
    /\ PageActive
    /\ robotModel' = m
    /\ last' = Quiet("setRobotModel")
    /\ UNCHANGED <<client, location, showPermissionModal, showTeleoperationModal,
                   leaderPort, followerPort, leaderConfig, followerConfig,
                   leaderConfigs, followerConfigs, isLoadingConfigs,
                   responseText, loads, starts, media, tracks, sessionActive>>

handleBeginSession ==
    /\ PageActive
    /\ robotModel # ""
    /\ showPermissionModal' = TRUE
    /\ last' = Quiet("handleBeginSession")
    /\ UNCHANGED <<client, location, robotModel, showTeleoperationModal,
                   leaderPort, followerPort, leaderConfig, followerConfig,
                   leaderConfigs, followerConfigs, isLoadingConfigs,
                   responseText, loads, starts, media, tracks, sessionActive>>

\* Opens the dialog and calls loadConfigs, which runs to its await.
handleTeleoperationClick ==
    /\ PageActive
    /\ robotModel # ""
    /\ Pending < MaxPending
    /\ showTeleoperationModal' = TRUE
    /\ isLoadingConfigs' = TRUE
    /\ loads' = Append(loads, [mounted |-> TRUE])
    /\ last' = Quiet("handleTeleoperationClick")
    /\ UNCHANGED <<client, location, robotModel, showPermissionModal,
                   leaderPort, followerPort, leaderConfig, followerConfig,
                   leaderConfigs, followerConfigs,
                   responseText, starts, media, tracks, sessionActive>>

(***************************************************************************)
(* Landing: loadConfigs.                                                   *)
(***************************************************************************)
JsonNull == [null |-> TRUE]
IsNull(d) == "null" \in DOMAIN d

\* Bodies GET /get-configs may carry: both lists, one of them, neither (an
\* error document), or null.
GetConfigsData ==
    {[leader_configs |-> l, follower_configs |-> f] : l \in ConfigLists, f \in ConfigLists}
    \cup {[leader_configs |-> l] : l \in ConfigLists}
    \cup {[follower_configs |-> f] : f \in ConfigLists}
    \cup {[detail |-> "error"], JsonNull}

\* data[k] || []
OrEmpty(d, k) == IF k \in DOMAIN d THEN d[k] ELSE <<>>

\* Mutant: the catch also empties both lists.
LoadConfigsOutcome_ClearsOnFailure(resp, lcs, fcs) ==
    IF Parsed(resp) /\ ~IsNull(resp.data)
      THEN [leaderConfigs |-> OrEmpty(resp.data, "leader_configs"),
            followerConfigs |-> OrEmpty(resp.data, "follower_configs"),
            toasts |-> <<>>,
            isLoadingConfigs |-> FALSE]
      ELSE [leaderConfigs |-> <<>>,
            followerConfigs |-> <<>>,
            toasts |-> <<"Error Loading Configs">>,
            isLoadingConfigs |-> FALSE]

\* loadConfigs after its await: the try body, the catch and the finally.
\* Reading a field of null throws before either list is set.
LoadConfigsOutcome(resp, lcs, fcs) ==
    IF Parsed(resp) /\ ~IsNull(resp.data)
      THEN [leaderConfigs |-> OrEmpty(resp.data, "leader_configs"),
            followerConfigs |-> OrEmpty(resp.data, "follower_configs"),
            toasts |-> <<>>,
            isLoadingConfigs |-> FALSE]
      ELSE [leaderConfigs |-> lcs,
            followerConfigs |-> fcs,
            toasts |-> <<"Error Loading Configs">>,
            isLoadingConfigs |-> FALSE]

LoadConfigsSettle(i, resp) ==
    /\ client = "react"
    /\ i \in DOMAIN loads
    /\ LET o == LoadConfigsOutcome(resp, leaderConfigs, followerConfigs)
       IN  /\ IF loads[i].mounted
                THEN /\ leaderConfigs' = o.leaderConfigs
                     /\ followerConfigs' = o.followerConfigs
                     /\ isLoadingConfigs' = o.isLoadingConfigs
                ELSE UNCHANGED <<leaderConfigs, followerConfigs, isLoadingConfigs>>
           /\ last' = Did("loadConfigs", o.toasts, <<>>, <<>>, FALSE)
    /\ loads' = RemoveAt(loads, i)
    /\ UNCHANGED <<client, location, robotModel, showPermissionModal,
                   showTeleoperationModal, leaderPort, followerPort,
                   leaderConfig, followerConfig,
                   responseText, starts, media, tracks, sessionActive>>

(***************************************************************************)
(* Landing: the teleoperation dialog's form.                               *)
(***************************************************************************)
DialogOpen == LandingMounted /\ showTeleoperationModal

setLeaderPort(v) ==
    /\ DialogOpen
    /\ leaderPort' = v
    /\ last' = Quiet("onChange")
    /\ UNCHANGED <<client, location, robotModel, showPermissionModal,
                   showTeleoperationModal, followerPort, leaderConfig,
                   followerConfig, leaderConfigs, followerConfigs,
                   isLoadingConfigs, responseText, loads, starts, media,
                   tracks, sessionActive>>

setFollowerPort(v) ==
    /\ DialogOpen
    /\ followerPort' = v
    /\ last' = Quiet("onChange")
    /\ UNCHANGED <<client, location, robotModel, showPermissionModal,
                   showTeleoperationModal, leaderPort, leaderConfig,
                   followerConfig, leaderConfigs, followerConfigs,
                   isLoadingConfigs, responseText, loads, starts, media,
                   tracks, sessionActive>>

\* The Select offers one item per entry of leaderConfigs.
setLeaderConfig(c) ==
    /\ DialogOpen
    /\ c \in Elems(leaderConfigs)
    /\ leaderConfig' = c
    /\ last' = Quiet("onChange")
    /\ UNCHANGED <<client, location, robotModel, showPermissionModal,
                   showTeleoperationModal, leaderPort, followerPort,
                   followerConfig, leaderConfigs, followerConfigs,
                   isLoadingConfigs, responseText, loads, starts, media,
                   tracks, sessionActive>>

setFollowerConfig(c) ==
    /\ DialogOpen
    /\ c \in Elems(followerConfigs)
    /\ followerConfig' = c
    /\ last' = Quiet("onChange")
    /\ UNCHANGED <<client, location, robotModel, showPermissionModal,
                   showTeleoperationModal, leaderPort, followerPort,
                   leaderConfig, leaderConfigs, followerConfigs,
                   isLoadingConfigs, responseText, loads, starts, media,
                   tracks, sessionActive>>

\* Cancel button, or the dialog dismissed (onOpenChange(false)).
closeTeleoperationModal ==
    /\ DialogOpen
    /\ showTeleoperationModal' = FALSE
    /\ starts' = [i \in DOMAIN starts |->
                    IF starts[i].mounted THEN [starts[i] EXCEPT !.closed = TRUE]
                                         ELSE starts[i]]
    /\ last' = Quiet("closeTeleoperationModal")
    /\ UNCHANGED <<client, location, robotModel, showPermissionModal,
                   leaderPort, followerPort, leaderConfig, followerConfig,
                   leaderConfigs, followerConfigs, isLoadingConfigs,
                   responseText, loads, media, tracks, sessionActive>>

(***************************************************************************)
(* Landing: handleStartTeleoperation.                                      *)
(***************************************************************************)
\* Mutant: the validation requires both configs to be empty.
MissingConfiguration_Both(lc, fc) == lc = "" /\ fc = ""

\* !leaderConfig || !followerConfig
MissingConfiguration(lc, fc) == lc = "" \/ fc = ""

\* Mutant: the leader and follower ports change places.
MoveArmBody_SwappedPorts(lp, fp, lc, fc) ==
    [leader_port |-> fp, follower_port |-> lp,
     leader_config |-> lc, follower_config |-> fc]

\* The JSON body of POST /move-arm.
MoveArmBody(lp, fp, lc, fc) ==
    [leader_port |-> lp, follower_port |-> fp,
     leader_config |-> lc, follower_config |-> fc]

\* Mutant: the request is transmitted a second time.
StartTeleoperation_Resend(lp, fp, lc, fc) ==
    IF MissingConfiguration(lc, fc)
      THEN [toasts |-> <<"Missing Configuration">>, posts |-> <<>>]
      ELSE [toasts |-> <<>>,
            posts |-> <<MoveArmBody(lp, fp, lc, fc), MoveArmBody(lp, fp, lc, fc)>>]

\* handleStartTeleoperation up to its await: the toasts raised and the
\* requests transmitted.
StartTeleoperation(lp, fp, lc, fc) ==
    IF MissingConfiguration(lc, fc)
      THEN [toasts |-> <<"Missing Configuration">>, posts |-> <<>>]
      ELSE [toasts |-> <<>>, posts |-> <<MoveArmBody(lp, fp, lc, fc)>>]

\* The button is rendered in the dialog and disabled while isLoadingConfigs.
handleStartTeleoperation ==
    /\ DialogOpen
    /\ ~isLoadingConfigs
    /\ LET o == StartTeleoperation(leaderPort, followerPort, leaderConfig, followerConfig)
       IN  /\ Pending + Len(o.posts) <= MaxPending
           /\ starts' = starts \o [k \in 1..Len(o.posts) |->
                                     [mounted |-> TRUE, closed |-> FALSE]]
           /\ last' = Did("handleStartTeleoperation", o.toasts, o.posts, <<>>,
                          FALSE)
    /\ UNCHANGED <<client, location, landingVars, responseText, loads, media,
                   tracks, sessionActive>>

\* Bodies POST /move-arm may answer with.
MoveArmData == {[message |-> "m"], [detail |-> "error"], JsonNull}

\* Mutant: an error status closes the dialog as a success does.
MoveArmOutcome_ClosesOnError(resp) ==
    IF Parsed(resp) /\ ~IsNull(resp.data)
      THEN IF resp.ok
             THEN [toasts |-> <<"Teleoperation Started">>,
                   close |-> TRUE, navigate |-> <<"/teleoperation">>]
             ELSE [toasts |-> <<"Error Starting Teleoperation">>,
                   close |-> TRUE, navigate |-> <<>>]
      ELSE [toasts |-> <<"Connection Error">>,
            close |-> FALSE, navigate |-> <<>>]

\* handleStartTeleoperation after its await: the toasts raised, whether the
\* dialog is closed, and the paths navigated to.  Reading data.message of
\* null throws inside the try and lands in the catch.
MoveArmOutcome(resp) ==
    IF Parsed(resp) /\ ~IsNull(resp.data)
      THEN IF resp.ok
             THEN [toasts |-> <<"Teleoperation Started">>,
                   close |-> TRUE, navigate |-> <<"/teleoperation">>]
             ELSE [toasts |-> <<"Error Starting Teleoperation">>,
                   close |-> FALSE, navigate |-> <<>>]
      ELSE [toasts |-> <<"Connection Error">>,
            close |-> FALSE, navigate |-> <<>>]

\* The backend answered the begin-session call with a success status.
Accepted(resp) == resp.fetch = "fulfilled" /\ resp.ok

MoveArmSettle(i, resp) ==
    /\ client = "react"
    /\ i \in DOMAIN starts
    /\ sessionActive' = (sessionActive \/ Accepted(resp))
    /\ LET o == MoveArmOutcome(resp)
           c == starts[i]
           rest == RemoveAt(starts, i)
       IN  /\ IF o.navigate # <<>>
                THEN Navigate(o.navigate[1], loads, rest)
                ELSE /\ showTeleoperationModal' =
                          IF o.close /\ c.mounted THEN FALSE
                                                  ELSE showTeleoperationModal
                     /\ starts' = rest
                     /\ UNCHANGED <<location, loads, robotModel,
                                    showPermissionModal, leaderPort,
                                    followerPort, leaderConfig, followerConfig,
                                    leaderConfigs, followerConfigs,
                                    isLoadingConfigs>>
           /\ last' = Did("handleStartTeleoperation.await", o.toasts, <<>>,
                          o.navigate, c.closed)
    /\ UNCHANGED <<client, responseText, media, tracks>>

(***************************************************************************)
(* Landing: the permission dialog and handlePermissions.                   *)
(***************************************************************************)
\* The dialog dismissed (onOpenChange(false)).
closePermissionModal ==
    /\ LandingMounted
    /\ showPermissionModal
    /\ showPermissionModal' = FALSE
    /\ last' = Quiet("closePermissionModal")
    /\ UNCHANGED <<client, location, robotModel, showTeleoperationModal,
                   leaderPort, followerPort, leaderConfig, followerConfig,
                   leaderConfigs, followerConfigs, isLoadingConfigs,
                   responseText, loads, starts, media, tracks, sessionActive>>

\* handlePermissions up to its await (allow) or to its end (not allow).
handlePermissions(allow) ==
    /\ LandingMounted
    /\ showPermissionModal
    /\ IF allow
         THEN /\ Pending < MaxPending
              /\ media' = media + 1
              /\ showPermissionModal' = FALSE
              /\ last' = Quiet("handlePermissions")
              /\ UNCHANGED <<location, robotModel, showTeleoperationModal,
                             leaderPort, followerPort, leaderConfig,
                             followerConfig, leaderConfigs, followerConfigs,
                             isLoadingConfigs, loads, starts>>
         ELSE /\ Navigate("/control", loads, starts)
              /\ last' = Did("handlePermissions", <<"Permission Denied">>, <<>>,
                             <<"/control">>, FALSE)
              /\ UNCHANGED media
    /\ UNCHANGED <<client, responseText, tracks, sessionActive>>

\* getUserMedia({video: true, audio: true}) resolves with a stream of live
\* tracks.
NewStream == {[kind |-> k, stops |-> 0] : k \in {"video", "audio"}}

\* Mutant: only the video tracks are stopped.
StopTracks_VideoOnly(stream) ==
    {IF t.kind = "video" THEN [t EXCEPT !.stops = @ + 1] ELSE t : t \in stream}

\* stream.getTracks().forEach((track) => track.stop())
StopTracks(stream) == {[t EXCEPT !.stops = @ + 1] : t \in stream}

\* handlePermissions after its await: the tracks it leaves behind, the
\* toasts raised and the paths navigated to.
PermissionsOutcome(granted) ==
    IF granted
      THEN [tracks |-> StopTracks(NewStream),
            toasts |-> <<"Permissions Granted">>,
            navigate |-> <<"/control">>]
      ELSE [tracks |-> {},
            toasts |-> <<"Permission Denied">>,
            navigate |-> <<>>]

GetUserMediaSettle(granted) ==
    /\ client = "react"
    /\ media > 0
    /\ media' = media - 1
    /\ LET o == PermissionsOutcome(granted)
       IN  /\ tracks' = tracks \cup o.tracks
           /\ IF o.navigate # <<>>
                THEN Navigate(o.navigate[1], loads, starts)
                ELSE UNCHANGED <<location, landingVars, loads, starts>>
           /\ last' = Did("handlePermissions.await", o.toasts, <<>>, o.navigate,
                          FALSE)
    /\ UNCHANGED <<client, responseText, sessionActive>>

(***************************************************************************)
(* Teleoperation page.                                                     *)
(***************************************************************************)
\* navigate('/'): Landing mounts with its initial state.
handleGoBack ==
    /\ client = "react"
    /\ RouteElement(location) = "TeleoperationPage"
    /\ location' = "/"
    /\ last' = Did("handleGoBack", <<>>, <<>>, <<"/">>, FALSE)
    /\ UNCHANGED <<client, landingVars, responseText, loads, starts, media,
                   tracks, sessionActive>>

(***************************************************************************)
(* The static page index.html.                                             *)
(***************************************************************************)
StaticPage == client = "static"

\* The value of a single-choice select whose options were just replaced:
\* the first option, or "" when there is none.
SelectValue(options) == IF options = <<>> THEN "" ELSE options[1]

\* window.onload after its await.  Both selects are emptied before the first
\* forEach; forEach on a missing list throws, and the catch reports it.
OnloadOutcome(resp, lcs, fcs, lc, fc, text) ==
    IF Parsed(resp) /\ ~IsNull(resp.data)
      THEN IF "leader_configs" \notin DOMAIN resp.data
             THEN [leaderConfigs |-> <<>>, followerConfigs |-> <<>>,
                   leaderConfig |-> "", followerConfig |-> "",
                   responseText |-> "Error loading configs"]
             ELSE IF "follower_configs" \notin DOMAIN resp.data
                    THEN [leaderConfigs |-> resp.data.leader_configs,
                          followerConfigs |-> <<>>,
                          leaderConfig |-> SelectValue(resp.data.leader_configs),
                          followerConfig |-> "",
                          responseText |-> "Error loading configs"]
                    ELSE [leaderConfigs |-> resp.data.leader_configs,
                          followerConfigs |-> resp.data.follower_configs,
                          leaderConfig |-> SelectValue(resp.data.leader_configs),
                          followerConfig |-> SelectValue(resp.data.follower_configs),
                          responseText |-> text]
      ELSE [leaderConfigs |-> lcs, followerConfigs |-> fcs,
            leaderConfig |-> lc, followerConfig |-> fc,
            responseText |-> "Error loading configs"]

StaticOnloadSettle(resp) ==
    /\ StaticPage
    /\ loads # <<>>
    /\ LET o == OnloadOutcome(resp, leaderConfigs, followerConfigs,
                              leaderConfig, followerConfig, responseText)
       IN  /\ leaderConfigs' = o.leaderConfigs
           /\ followerConfigs' = o.followerConfigs
           /\ leaderConfig' = o.leaderConfig
           /\ followerConfig' = o.followerConfig
           /\ responseText' = o.responseText
    /\ loads' = Tail(loads)
    /\ last' = Did("window.onload", <<>>, <<>>, <<>>, FALSE)
    /\ UNCHANGED <<client, location, robotModel, showPermissionModal,
                   showTeleoperationModal, leaderPort, followerPort,
                   isLoadingConfigs, starts, media, tracks, sessionActive>>

\* The operator edits a port input.
StaticSetPort(which, v) ==
    /\ StaticPage
    /\ IF which = "leaderPort"
         THEN leaderPort' = v /\ UNCHANGED followerPort
         ELSE followerPort' = v /\ UNCHANGED leaderPort
    /\ last' = Quiet("input")
    /\ UNCHANGED <<client, location, robotModel, showPermissionModal,
                   showTeleoperationModal, leaderConfig, followerConfig,
                   leaderConfigs, followerConfigs,
                   isLoadingConfigs, responseText, loads, starts, media,
                   tracks, sessionActive>>

\* The operator picks an option of a select.
StaticSelect(which, c) ==
    /\ StaticPage
    /\ IF which = "leaderConfig"
         THEN /\ c \in Elems(leaderConfigs)
              /\ leaderConfig' = c
              /\ UNCHANGED followerConfig
         ELSE /\ c \in Elems(followerConfigs)
              /\ followerConfig' = c
              /\ UNCHANGED leaderConfig
    /\ last' = Quiet("input")
    /\ UNCHANGED <<client, location, robotModel, showPermissionModal,
                   showTeleoperationModal, leaderPort, followerPort,
                   leaderConfigs, followerConfigs,
                   isLoadingConfigs, responseText, loads, starts, media,
                   tracks, sessionActive>>

\* !leaderConfig || !followerConfig
StaticMissingConfiguration(lc, fc) == lc = "" \/ fc = ""

\* The JSON body of the static page's POST /move-arm.
StaticMoveArmBody(lp, fp, lc, fc) ==
    [leader_port |-> lp, follower_port |-> fp,
     leader_config |-> lc, follower_config |-> fc]

PleaseSelect == "Please select calibration configs for both leader and follower"

\* moveArm up to its await: the text shown and the requests transmitted.
\* Each value is read from the element of the same name.
StaticMoveArm(lp, fp, lc, fc, text) ==
    IF StaticMissingConfiguration(lc, fc)
      THEN [responseText |-> PleaseSelect, posts |-> <<>>]
      ELSE [responseText |-> text,
            posts |-> <<StaticMoveArmBody(lp, fp, lc, fc)>>]

moveArm ==
    /\ StaticPage
    /\ LET o == StaticMoveArm(leaderPort, followerPort, leaderConfig,
                              followerConfig, responseText)
       IN  /\ Pending + Len(o.posts) <= MaxPending
           /\ starts' = starts \o [k \in 1..Len(o.posts) |->
                                     [mounted |-> TRUE, closed |-> FALSE]]
           /\ responseText' = o.responseText
           /\ last' = Did("moveArm", <<>>, o.posts, <<>>, FALSE)
    /\ UNCHANGED <<client, location, landingVars, loads, media, tracks, sessionActive>>

\* moveArm after its await: data.message, or the error text of the catch.
\* Assigning undefined to textContent empties the element.
StaticMoveArmOutcome(resp) ==
    IF Parsed(resp) /\ ~IsNull(resp.data)
      THEN IF "message" \in DOMAIN resp.data THEN resp.data.message ELSE ""
      ELSE "Error"

StaticMoveArmSettle(i, resp) ==
    /\ StaticPage
    /\ i \in DOMAIN starts
    /\ sessionActive' = (sessionActive \/ Accepted(resp))
    /\ responseText' = StaticMoveArmOutcome(resp)
    /\ starts' = RemoveAt(starts, i)
    /\ last' = Did("moveArm.await", <<>>, <<>>, <<>>, FALSE)
    /\ UNCHANGED <<client, location, landingVars, loads, media, tracks>>

(***************************************************************************)
(* Specification.                                                          *)
(***************************************************************************)
Operator ==
    \/ \E m \in RobotModels : setRobotModel(m)
    \/ handleBeginSession
    \/ handleTeleoperationClick
    \/ \E v \in PortValues : setLeaderPort(v)
    \/ \E v \in PortValues : setFollowerPort(v)
    \/ \E c \in Elems(leaderConfigs) : setLeaderConfig(c)
    \/ \E c \in Elems(followerConfigs) : setFollowerConfig(c)
    \/ closeTeleoperationModal
    \/ handleStartTeleoperation
    \/ closePermissionModal
    \/ \E allow \in BOOLEAN : handlePermissions(allow)
    \/ handleGoBack
    \/ \E which \in {"leaderPort", "followerPort"}, v \in PortValues :
          StaticSetPort(which, v)
    \/ \E which \in {"leaderConfig", "followerConfig"},
          c \in Elems(leaderConfigs) \cup Elems(followerConfigs) :
            StaticSelect(which, c)
    \/ moveArm

Settle ==
    \/ \E i \in Settling(loads), resp \in BodyResponses(GetConfigsData) :
          LoadConfigsSettle(i, resp)
    \/ \E i \in Settling(starts), resp \in Responses(MoveArmData) :
          MoveArmSettle(i, resp)
    \/ \E granted \in BOOLEAN : GetUserMediaSettle(granted)
    \/ \E resp \in BodyResponses(GetConfigsData) : StaticOnloadSettle(resp)
    \/ \E i \in Settling(starts), resp \in Responses(MoveArmData) :
          StaticMoveArmSettle(i, resp)

Next == Operator \/ Settle

Spec == Init /\ [][Next]_vars

(***************************************************************************)
(* Properties.                                                             *)
(***************************************************************************)
StartHandlers == {"handleStartTeleoperation", "moveArm"}
BodyKeys == {"leader_port", "follower_port", "leader_config", "follower_config"}

\* C1: when the operator triggers Start Teleoperation (Landing or the static
\* page) while the leader or the follower config is empty, the operator is
\* told of the missing configuration, no POST /move-arm is transmitted, no
\* call is left pending and the location does not change.
C1_MissingConfigurationSendsNothing ==
    [][(/\ last'.handler \in StartHandlers
        /\ (leaderConfig = "" \/ followerConfig = ""))
       => /\ last'.posts = <<>>
          /\ starts' = starts
          /\ location' = location
          /\ last'.navigate = <<>>
          /\ IF client = "react"
               THEN last'.toasts = <<"Missing Configuration">>
               ELSE responseText' = PleaseSelect]_vars

\* C1 witness: Start was triggered on Landing with a leader config chosen and
\* the follower config still empty, after a config load.
C1_Witness ==
    /\ last.handler = "handleStartTeleoperation"
    /\ leaderConfig # ""
    /\ followerConfig = ""
    /\ leaderConfigs # <<>>
    /\ last.toasts = <<"Missing Configuration">>

\* C3: every track acquired by handlePermissions has been stopped exactly
\* once, in every state: none is live and none was stopped twice, whatever
\* the number of calls, their overlap and their results.
C3_TracksStoppedOnce == \A t \in tracks : t.stops = 1

\* C3 witness: a call of handlePermissions was rejected after an overlapping
\* one had acquired and released its stream and navigated to /control.
C3_Witness ==
    /\ tracks # {}
    /\ location = "/control"
    /\ last.handler = "handlePermissions.await"
    /\ last.toasts = <<"Permission Denied">>

\* C7: every POST /move-arm carries exactly leader_port, follower_port,
\* leader_config and follower_config, each with the value its form field
\* had when the operator triggered the start.
C7_BodyCarriesTheForm ==
    [][last'.handler \in StartHandlers
       => \A k \in DOMAIN last'.posts :
            /\ DOMAIN last'.posts[k] = BodyKeys
            /\ last'.posts[k].leader_port = leaderPort
            /\ last'.posts[k].follower_port = followerPort
            /\ last'.posts[k].leader_config = leaderConfig
            /\ last'.posts[k].follower_config = followerConfig]_vars

\* C7 witness: a request was sent from Landing after both ports were edited
\* away from their defaults and two different configs were chosen.
C7_Witness ==
    /\ last.handler = "handleStartTeleoperation"
    /\ last.posts # <<>>
    /\ leaderPort = Port621
    /\ followerPort = Port421
    /\ leaderConfig # followerConfig

\* C8: a step transmits a POST /move-arm only when it is the operator's
\* start action, and then exactly one; a step that consumes a response
\* (success, error status or network error) transmits nothing and leaves one
\* call fewer pending.
C8_AtMostOnePost ==
    [][/\ (last'.posts # <<>> \/ Len(starts') > Len(starts))
          => /\ last'.handler \in StartHandlers
             /\ Len(last'.posts) = 1
             /\ Len(starts') = Len(starts) + 1
       /\ last'.handler \in {"handleStartTeleoperation.await", "moveArm.await"}
          => /\ last'.posts = <<>>
             /\ Len(starts') = Len(starts) - 1]_vars

\* C8 witness: a request failed while another one, sent by a second click,
\* is still pending.
C8_Witness ==
    /\ last.handler = "handleStartTeleoperation.await"
    /\ last.toasts = <<"Connection Error">>
    /\ Len(starts) = 1

\* C2: whenever handlePermissions ends with access denied (Continue
\* without, or Allow Access followed by a rejected device request), it has
\* navigated to /control.
C2_DenialStillProceeds ==
    (/\ last.handler \in {"handlePermissions", "handlePermissions.await"}
     /\ last.toasts = <<"Permission Denied">>)
    => (last.navigate = <<"/control">> /\ location = "/control")

\* C4: the teleoperation view is shown only after a begin-session request was
\* answered with a success status.
C4_TeleoperationOnlyAfterHandshake ==
    (client = "react" /\ RouteElement(location) = "TeleoperationPage")
    => sessionActive

\* C5: the response to a request that was pending when the operator closed
\* the dialog causes no navigation and no Teleoperation Started toast.
C5_CancelStopsTheHandshake ==
    (last.handler = "handleStartTeleoperation.await" /\ last.cancelled)
    => (last.navigate = <<>> /\ last.toasts # <<"Teleoperation Started">>)

\* C6: once handleGoBack has returned the operator to the landing page, no
\* session started earlier is still active.
C6_GoBackEndsTheSession ==
    last.handler = "handleGoBack" => ~sessionActive

\* C9: handleStartTeleoperation ends with exactly one of the four outcomes.
\* Up to its await it either raises Missing Configuration and sends nothing,
\* or raises nothing and sends one request; its continuation can always run
\* once the request settles, and raises exactly one of Teleoperation
\* Started, Error Starting Teleoperation and Connection Error, a rejected
\* send included.  On every outcome but Teleoperation Started the dialog,
\* the ports, the configs and the location are left as they were.
C9_StartStep ==
    last'.handler = "handleStartTeleoperation"
    => /\ \/ last'.toasts = <<"Missing Configuration">> /\ last'.posts = <<>>
          \/ last'.toasts = <<>> /\ Len(last'.posts) = 1
       /\ showTeleoperationModal' = showTeleoperationModal
       /\ formVars' = formVars
       /\ location' = location

C9_AwaitStep ==
    last'.handler = "handleStartTeleoperation.await"
    => /\ Len(last'.toasts) = 1
       /\ last'.toasts[1] \in {"Teleoperation Started",
                               "Error Starting Teleoperation",
                               "Connection Error"}
       /\ last'.toasts[1] # "Teleoperation Started"
          => /\ showTeleoperationModal' = showTeleoperationModal
             /\ formVars' = formVars
             /\ location' = location
             /\ last'.navigate = <<>>

C9_CanFinish ==
    (client = "react" /\ starts # <<>>)
    => \A i \in DOMAIN starts :
         ENABLED (\E r \in Responses(MoveArmData) : MoveArmSettle(i, r))

C9_ExactlyOneOutcome ==
    [](C9_CanFinish) /\ [][C9_StartStep /\ C9_AwaitStep]_vars

\* C9 witness: a request ended in Error Starting Teleoperation with the
\* dialog still open and both configs still selected.
C9_Witness ==
    /\ last.handler = "handleStartTeleoperation.await"
    /\ last.toasts = <<"Error Starting Teleoperation">>
    /\ showTeleoperationModal
    /\ leaderConfig # ""
    /\ followerConfig # ""

\* C10: loadConfigs never changes the selected configs or the ports.  For a
\* call of the mounted Landing: when the response parses to an object the
\* two lists become the response's lists, an absent field giving the empty
\* list, and no error is raised; when the fetch or the parse fails both lists
\* stay and Error Loading Configs is raised; either way isLoadingConfigs is
\* false afterwards.  The continuation of a pending call can always run.
C10_Success(resp) ==
    resp.fetch = "fulfilled" /\ resp.json /\ resp.data # JsonNull

C10_ListOf(resp, k) ==
    IF k \in DOMAIN resp.data THEN resp.data[k] ELSE <<>>

C10_SettleStep ==
    last'.handler = "loadConfigs"
    => \A i \in Settling(loads), resp \in BodyResponses(GetConfigsData) :
      LoadConfigsSettle(i, resp)
      => /\ formVars' = formVars
         /\ loads[i].mounted
            => /\ isLoadingConfigs' = FALSE
               /\ IF C10_Success(resp)
                    THEN /\ leaderConfigs' = C10_ListOf(resp, "leader_configs")
                         /\ followerConfigs' = C10_ListOf(resp, "follower_configs")
                         /\ last'.toasts = <<>>
                    ELSE /\ leaderConfigs' = leaderConfigs
                         /\ followerConfigs' = followerConfigs
                         /\ last'.toasts = <<"Error Loading Configs">>

C10_ClickStep ==
    last'.handler = "handleTeleoperationClick"
    => /\ formVars' = formVars
       /\ leaderConfigs' = leaderConfigs
       /\ followerConfigs' = followerConfigs

C10_CanFinish ==
    (client = "react" /\ loads # <<>>)
    => \A i \in DOMAIN loads :
         ENABLED (\E r \in BodyResponses(GetConfigsData) : LoadConfigsSettle(i, r))

C10_LoadConfigsReadOnly ==
    [](C10_CanFinish) /\ [][C10_SettleStep /\ C10_ClickStep]_vars

\* C10 witness: with both configs selected, a later load failed: the lists
\* and the selections are still there and the flag is reset.
C10_Witness ==
    /\ last.handler = "loadConfigs"
    /\ last.toasts = <<"Error Loading Configs">>
    /\ leaderConfigs # <<>>
    /\ leaderConfig # ""
    /\ followerConfig # ""
    /\ ~isLoadingConfigs

\* C11: at most one POST /move-arm of the React client is awaiting its
\* answer at any time: a click on Start Teleoperation while an earlier
\* request is pending sends no second one.
C11_OneRequestInFlight ==
    client = "react" => Len(starts) <= 1

\* C12: while the teleoperation dialog is shown and a loadConfigs call of
\* this Landing instance has not completed, isLoadingConfigs is true, so
\* the Start Teleoperation button is disabled; overlapping calls after the
\* dialog was closed and reopened included.
C12_DisabledWhileLoading ==
    (DialogOpen /\ \E i \in DOMAIN loads : loads[i].mounted)
    => isLoadingConfigs

\* The values the two port fields hold before the operator edits them:
\* the useState initial values of Landing and the value attributes of the
\* static page's inputs.
LandingDefaultPorts == [leaderPort |-> Port421, followerPort |-> Port621]
StaticDefaultPorts == [leaderPort |-> Port621, followerPort |-> Port421]

DefaultPorts(c) ==
    IF c = "react" THEN LandingDefaultPorts ELSE StaticDefaultPorts

\* The request the other client transmits for the same selected configs
\* when its port fields are left at their defaults.
OtherClientBody(c, lc, fc) ==
    IF c = "react"
      THEN StaticMoveArm(StaticDefaultPorts.leaderPort,
                         StaticDefaultPorts.followerPort, lc, fc, "").posts
      ELSE StartTeleoperation(LandingDefaultPorts.leaderPort,
                              LandingDefaultPorts.followerPort, lc, fc).posts

\* C13: a POST /move-arm sent by either client with its port fields at
\* their defaults is the request the other client sends for the same
\* configs with its port fields at their defaults: the same leader_port,
\* follower_port, leader_config and follower_config.
C13_ClientsSendTheSameRequest ==
    (/\ last.handler \in StartHandlers
     /\ last.posts # <<>>
     /\ leaderPort = DefaultPorts(client).leaderPort
     /\ followerPort = DefaultPorts(client).followerPort)
    => last.posts = OtherClientBody(client, leaderConfig, followerConfig)

====
